---- MODULE Spec2Model ----
(***************************************************************************)
(* Panopticon-M365: the authenticated HTTP client (src/src/client), the     *)
(* generic scoped API helpers built on it (src/src/apis), the SessionStore *)
(* (src/src/auth) and the commands that use it (src/src/commands,          *)
(* src/src/azure).                                                         *)
(*                                                                         *)
(* Spec          : Client::authenticate and Client::request called by      *)
(*                 concurrent tasks, with the cache-wide RwLock, the       *)
(*                 per-session Mutex, the device-code flow and the refresh *)
(*                 exchange.                                               *)
(* SpecApi       : one caller running get_resource / put_resource /        *)
(*                 post_resource / delete_resource / list_resources        *)
(*                 against a server that holds a chain of pages.           *)
(* SpecStore     : M365AuthCommand::execute and                            *)
(*                 get_azure_management_token on one SessionStore.         *)
(* SpecEstablish : the device-code flows of the client and of the store,   *)
(*                 with the runtime's timer steps taken fairly.            *)
(***************************************************************************)
EXTENDS Integers, Sequences, FiniteSets, TLC

\* ------------------------------------------------------------------ bounds

MaxNow == 1          \* the monotonic clock runs over 0..MaxNow seconds
MaxTokens == 2       \* access tokens the server issues for one identity
MaxPolls == 1        \* "authorization_pending" answers before the device code expires
MaxPages == 3        \* pages the server holds for a list
MaxItems == 2        \* items on one page

\* ------------------------------------------------------- program constants

\* The refresh margin of Session::secret, in seconds.
RefreshBuffer == 300

\* ------------------------------------------------------------- value sets

\* The concurrent callers of one Client.
Tasks == {"a", "b"}

\* Tenant / client identifiers as the callers write them. "bad" is not a UUID.
TenantStrs == {"t1", "t2", "bad"}

\* Uuid::parse_str: 0 stands for Err.
ParseUuid(s) ==
    CASE s = "t1" -> 1
      [] s = "t2" -> 2
      [] s = "c1" -> 11
      [] OTHER -> 0

SeqRange(s) == { s[i] : i \in 1..Len(s) }

\* SessionKey::new: the scopes are collected into a BTreeSet.
SessionKeyNew(tenant_id, client_id, scopes) ==
    [tenant_id |-> tenant_id, client_id |-> client_id, scopes |-> SeqRange(scopes)]

NoKey == [tenant_id |-> 0, client_id |-> 0, scopes |-> {}]

\* The arguments callers pass to authenticate: tenant id, client id and the
\* scopes as a slice (so ordered). Two of them name the same scopes in a
\* different order, the third shares their tenant and client but not their
\* scopes, the last has a malformed tenant id.
AuthInputs ==
    { <<"t1", "c1", <<"arm", "offline_access">> >>,
      <<"t1", "c1", <<"offline_access", "arm">> >>,
      <<"t1", "c1", <<"graph">> >>,
      <<"bad", "c1", <<"graph">> >> }

Keys ==
    { SessionKeyNew(ParseUuid(a[1]), ParseUuid(a[2]), a[3]) :
        a \in { b \in AuthInputs : ParseUuid(b[1]) # 0 /\ ParseUuid(b[2]) # 0 } }

\* expires_in of a token response; Absent when the server omits the field.
Absent == 0 - 1
ExpiresChoices == {Absent, RefreshBuffer + 1}

\* A token response (oauth2::StandardTokenResponse). access is the serial
\* number of the access token the server issued for the session's key;
\* received is the instant the response arrived (not a field of the code's
\* token: it records which instant belongs to the token).
TokenResponse(access, has_refresh, expires_in, received) ==
    [access |-> access, refresh |-> has_refresh, expires_in |-> expires_in,
     received |-> received]

NoToken == TokenResponse(0, FALSE, Absent, Absent)

\* A Session: the token and the Instant it was obtained at.
NoSession == [token |-> NoToken, created |-> Absent]

\* Result<..>: kind is "none" while the call runs.
NoResult == [kind |-> "none", err |-> "", access |-> 0]
Ok(access) == [kind |-> "ok", err |-> "", access |-> access]
Err(e) == [kind |-> "err", err |-> e, access |-> 0]

\* AuthScope of auth/mod.rs: the key of the SessionStore. The scopes are a
\* Vec<String>; the derived Eq and Hash compare them element by element.
AuthScope(client_id, tenant_id, scopes) ==
    [client_id |-> client_id, tenant_id |-> tenant_id, scopes |-> scopes]

NoScope == AuthScope("", "", <<>>)

AZURE_MANAGEMENT_SCOPE == "https://management.azure.com/.default"

\* The session entries an M365AuthCommand is configured with: one
\* application of one tenant, the same two scopes written in either order.
ConfigA == AuthScope("c1", "t1", <<"offline_access", "graph">>)
ConfigB == AuthScope("c1", "t1", <<"graph", "offline_access">>)
ConfigScopes == {ConfigA, ConfigB}

\* The AuthScope get_azure_management_token builds.
ManagementAuthScope == AuthScope("c1", "t1", <<AZURE_MANAGEMENT_SCOPE>>)

StoreScopes == ConfigScopes \cup {ManagementAuthScope}

\* The `sessions` attribute of an M365AuthCommand: no entry, one entry, the
\* two entries in either order, one entry twice.
ConfigLists ==
    { <<>>, <<ConfigA>>, <<ConfigA, ConfigB>>, <<ConfigB, ConfigA>>,
      <<ConfigA, ConfigA>> }

\* Option<String>
NoneOpt == [some |-> FALSE, val |-> 0]
SomeOpt(v) == [some |-> TRUE, val |-> v]

\* --------------------------------------------------------------- variables

VARIABLES
    sessions,     \* Client.sessions: SessionKey -> Session (NoSession: no entry)
    rwWriter,     \* tasks holding the write guard of Client.sessions (at most one)
    mutexOwner,   \* per entry: tasks holding the Mutex around the Session
    task,         \* per task: where it is in authenticate / request
    now,          \* the monotonic clock (std::time::Instant), in seconds
    established,  \* per key: device-code flows started and not failed
    api,          \* the helper call in progress and what the server has answered
    store         \* the SessionStore of auth/mod.rs and the command using it

vars == <<sessions, rwWriter, mutexOwner, task, now, established, api, store>>

\* A task that has made no call yet. A task whose call has returned keeps
\* the call's arguments and result until it makes the next call.
Idle ==
    [pc |-> "done", op |-> "", key |-> NoKey, tenant |-> "", want |-> NoKey,
     arc |-> NoKey,
     polls |-> 0, exchanges |-> 0, result |-> NoResult]

\* The helper call in progress: the requests sent, the last response's
\* status and body, the items gathered by list_resources, and the sizes of
\* the pages the server has served.
NoBody == [shape |-> "", n |-> 0, next |-> FALSE]
ApiIdle ==
    [sent |-> 0, status |-> 0, body |-> NoBody,
     items |-> <<>>, served |-> <<>>,
     suffix |-> <<>>, target |-> <<>>, urls |-> <<>>, links |-> <<>>]

\* The SessionStore with no session, not yet installed in the context's
\* extensions, and no command running. While a command
\* runs: the command (cmd), its configured entries, the index of the entry
\* in hand and the count of execute; the AuthScope get_secret was called
\* with; the polls and refresh exchanges of that call; the texts given to
\* services.notify during the command; the error raised inside get_secret;
\* the command's result and the sessions_initialized value it wrote.
StoreIdle ==
    [sessions |-> [a \in StoreScopes |-> NoSession],
     installed |-> FALSE,
     pc |-> "done", cmd |-> "", configs |-> <<>>, i |-> 0, count |-> 0,
     scope |-> NoScope, polls |-> 0, exchanges |-> 0, notes |-> <<>>,
     raised |-> "", out |-> NoResult, written |-> Absent]

Init ==
    /\ sessions = [k \in Keys |-> NoSession]
    /\ rwWriter = {}
    /\ mutexOwner = [k \in Keys |-> {}]
    /\ task = [t \in Tasks |-> Idle]
    /\ now = 0
    /\ established = [k \in Keys |-> 0]
    /\ api = ApiIdle
    /\ store = StoreIdle

\* ------------------------------------------------------- Session (auth.rs)

\* token.expires_in().unwrap_or_default().as_secs()
ExpiresSecs(token) == IF token.expires_in = Absent THEN 0 ELSE token.expires_in

\* self.created.elapsed().as_secs()
Elapsed(session, clock) == clock - session.created

\* a - b on u64. Below zero the subtraction overflows: the build either
\* panics or wraps around to a number near 2^64, which no elapsed time
\* reaches; ok tells the two cases apart, val is only meaningful with ok.
checked_sub(a, b) ==
    IF a >= b THEN [ok |-> TRUE, val |-> a - b] ELSE [ok |-> FALSE, val |-> 0]

\* No subtraction was evaluated.
NoSub == [ok |-> TRUE, val |-> Absent]

\* `expires_in < 300 || elapsed >= (expires_in - 300)` as it is evaluated:
\* `||` evaluates its right operand only when the left one is false. due is
\* the value of the condition, sub the subtraction evaluated on the way.
secret_condition_eager(expires_in, elapsed) ==
    LET d == checked_sub(expires_in, RefreshBuffer)
    IN  [due |-> expires_in < RefreshBuffer \/ (d.ok /\ elapsed >= d.val),
         sub |-> d]
secret_condition(expires_in, elapsed) ==
    IF expires_in < RefreshBuffer
      THEN [due |-> TRUE, sub |-> NoSub]
      ELSE LET d == checked_sub(expires_in, RefreshBuffer)
           IN  [due |-> d.ok /\ elapsed >= d.val, sub |-> d]

\* The condition of Session::secret under which the token is refreshed.
\* The right operand is only evaluated when expires_in >= 300.
RefreshDueAlways(expires_in, elapsed) == TRUE
\* (Written out: expires_in < 300, or elapsed >= expires_in - 300.)
RefreshDueWiderMargin(expires_in, elapsed) ==
    expires_in < RefreshBuffer \/ elapsed + 1 >= expires_in - RefreshBuffer
RefreshDue(expires_in, elapsed) == secret_condition(expires_in, elapsed).due

\* remaining = expiresIn - (now - issuedAt), the quantity the specification
\* of EnsureFresh is written in.
Remaining(session, clock) == ExpiresSecs(session.token) - Elapsed(session, clock)

\* The successful answers of the token endpoint to a device-code poll or a
\* refresh exchange for identity k whose last access token had serial number
\* n. A refresh token is only ever issued when offline_access was requested,
\* and may be omitted even then. After MaxTokens tokens the server issues no
\* more (it rejects).
ServerTokens(k, n, clock) ==
    { TokenResponse(n + 1, r, e, clock) :
        r \in { x \in BOOLEAN : x => "offline_access" \in k.scopes },
        e \in { x \in ExpiresChoices : n < MaxTokens } }

\* ------------------------------------------------- Client (client/mod.rs)

\* Token::refresh_token(): whether the held token carries a refresh token.
refresh_token_assumed(token) == TRUE
has_refresh_token(token) == token.refresh

\* HashMap::contains_key
contains_key(map, k) == map[k] # NoSession

\* tokio RwLock: the write guard is given when nobody holds the lock. Read
\* guards are taken and dropped inside one synchronous block (request, lines
\* 92-95), so no state has a reader holding the lock.
WriteLockIgnored == TRUE
WriteLockFree == rwWriter = {}
ReadLockFree == rwWriter = {}

\* tokio Mutex around one Session.
MutexIgnored(k) == TRUE
MutexShared(k) == \A j \in Keys : mutexOwner[j] = {}
MutexFree(k) == mutexOwner[k] = {}

Finish(t, res) ==
    [task EXCEPT ![t].pc = "done", ![t].polls = 0, ![t].result = res]

\* The operations that are one bare call of the Client, and the generic
\* helpers of apis/mod.rs, which call Client::request and go on.
Verbs == {"get", "put", "post", "delete", "list"}

\* Client::request returns res. A bare call is over; in a helper an error
\* returns through `?`, and the RequestBuilder (carrying the bearer token) is
\* sent next.
Return(t, res) ==
    IF task[t].op \in Verbs /\ res.kind = "ok"
      THEN [task EXCEPT ![t].pc = "send", ![t].result = res]
      ELSE Finish(t, res)

\* Client::authenticate, lines 59-63: the key is built before any lock is
\* taken; a malformed tenant or client id returns the parse error.
authenticate_call(t, tenant_id, client_id, scopes) ==
    /\ task[t].pc = "done" /\ task[t].op \notin Verbs
    /\ IF ParseUuid(tenant_id) = 0 \/ ParseUuid(client_id) = 0
         THEN task' = [task EXCEPT ![t] =
                 [Idle EXCEPT !.op = "authenticate", !.result = Err("uuid")]]
         ELSE task' = [task EXCEPT ![t] =
                 [Idle EXCEPT !.pc = "auth_wait_write", !.op = "authenticate",
                     !.key = SessionKeyNew(ParseUuid(tenant_id),
                                           ParseUuid(client_id), scopes)]]
    /\ UNCHANGED <<sessions, rwWriter, mutexOwner, now, established, api, store>>

\* Client::authenticate, lines 65-71: the write guard is taken; with the key
\* present the call returns Ok(()) and the guard drops; otherwise the
\* device-code request is sent with the guard still held.
authenticate_lock(t) ==
    /\ task[t].pc = "auth_wait_write"
    /\ WriteLockFree
    /\ IF contains_key(sessions, task[t].key)
         THEN /\ task' = Finish(t, Ok(0))
              /\ UNCHANGED <<rwWriter, established>>
         ELSE /\ rwWriter' = {t}
              /\ task' = [task EXCEPT ![t].pc = "device_code"]
              /\ established' =
                    [established EXCEPT ![task[t].key] = @ + 1]
    /\ UNCHANGED <<sessions, mutexOwner, now, api, store>>

\* Session::from_session_key, lines 99-110: the answer to the device-code
\* request. On success the instructions are printed and polling starts; an
\* error returns through `?` in authenticate, dropping the write guard.
from_session_key_device_code(t) ==
    /\ task[t].pc = "device_code"
    /\ \/ /\ task' = [task EXCEPT ![t].pc = "polling"]
          /\ UNCHANGED <<rwWriter, established>>
       \/ /\ task' = Finish(t, Err("device_code_request"))
          /\ rwWriter' = rwWriter \ {t}
          /\ established' = [established EXCEPT ![task[t].key] = @ - 1]
    /\ UNCHANGED <<sessions, mutexOwner, now, api, store>>

\* Session::from_session_key, lines 113-116, one poll of the token endpoint
\* answered "authorization_pending": the library sleeps for the poll interval.
\* polls counts the intervals of the device code's lifetime used up.
from_session_key_pending_forever(t) ==
    /\ task[t].pc = "polling"
    /\ UNCHANGED vars
from_session_key_pending(t) ==
    /\ task[t].pc = "polling"
    /\ task[t].polls < MaxPolls
    /\ task' = [task EXCEPT ![t].polls = @ + 1]
    /\ UNCHANGED <<sessions, rwWriter, mutexOwner, now, established, api, store>>

\* Session::from_session_key, lines 113-122, and authenticate, line 68: the
\* poll that returns the token. The Session is built with created =
\* Instant::now(), inserted under the key, and the write guard drops.
from_session_key_token(t) ==
    /\ task[t].pc = "polling"
    /\ task[t].polls < MaxPolls
    /\ \E tok \in ServerTokens(task[t].key, 0, now) :
         sessions' = [sessions EXCEPT
             ![task[t].key] = [token |-> tok, created |-> now]]
    /\ rwWriter' = rwWriter \ {t}
    /\ task' = Finish(t, Ok(0))
    /\ UNCHANGED <<mutexOwner, now, established, api, store>>

\* Session::from_session_key, lines 113-116: the poll fails (access_denied,
\* expired_token, or a transport error); `?` returns the error.
from_session_key_failed_inserting(t) ==
    /\ task[t].pc = "polling"
    /\ task[t].polls < MaxPolls
    /\ \E e \in {"access_denied", "expired_token"} :
         /\ task' = Finish(t, Err(e))
    /\ sessions' = [sessions EXCEPT ![task[t].key] =
                       [token |-> TokenResponse(1, FALSE, Absent, now), created |-> now]]
    /\ rwWriter' = rwWriter \ {t}
    /\ established' = [established EXCEPT ![task[t].key] = @ - 1]
    /\ UNCHANGED <<mutexOwner, now, api, store>>
from_session_key_failed(t) ==
    /\ task[t].pc = "polling"
    /\ task[t].polls < MaxPolls
    /\ \E e \in {"access_denied", "expired_token"} :
         /\ task' = Finish(t, Err(e))
    /\ rwWriter' = rwWriter \ {t}
    /\ established' = [established EXCEPT ![task[t].key] = @ - 1]
    /\ UNCHANGED <<sessions, mutexOwner, now, api, store>>

\* Session::from_session_key, lines 113-116, with timeout None: the poll
\* loop runs for the lifetime the device-code response declared; once that
\* is over no further poll is sent and the loop ends with the expired_token
\* error, which `?` returns.
from_session_key_expired(t) ==
    /\ task[t].pc = "polling"
    /\ task[t].polls = MaxPolls
    /\ task' = Finish(t, Err("expired_token"))
    /\ rwWriter' = rwWriter \ {t}
    /\ established' = [established EXCEPT ![task[t].key] = @ - 1]
    /\ UNCHANGED <<sessions, mutexOwner, now, api, store>>

\* Client::find_session, lines 79-82: the entries whose key has the tenant.
\* HashMap::iter visits them in an unspecified order and find takes the
\* first, so any of them may be returned.
find_session(map, tenant_uuid) ==
    { k \in Keys : contains_key(map, k) /\ k.tenant_id = tenant_uuid }

\* Client::request is entered for a surface (ApiScope) of tenant tenant_id.
\* want is the identity whose token the surface's API accepts; the code never
\* sees it (ApiScope carries the tenant only).
request_call(t, tenant_id, want) ==
    /\ task[t].pc = "done" /\ task[t].op \notin Verbs
    /\ task' = [task EXCEPT ![t] =
          [Idle EXCEPT !.pc = "req_wait_read", !.op = "request",
              !.tenant = tenant_id, !.want = want]]
    /\ UNCHANGED <<sessions, rwWriter, mutexOwner, now, established, api, store>>

\* Client::request, lines 92-95: under the read guard find_session parses the
\* tenant id and clones the Arc of an entry of that tenant; the guard drops at
\* the end of the block.
request_find(t) ==
    /\ task[t].pc = "req_wait_read"
    /\ ReadLockFree
    /\ LET uuid == ParseUuid(task[t].tenant)
           found == find_session(sessions, uuid)
       IN  IF uuid = 0
             THEN task' = Return(t, Err("uuid"))
             ELSE IF found = {}
               THEN task' = Return(t, Err("No session found for tenant"))
               ELSE \E k \in found :
                      task' = [task EXCEPT
                          ![t].pc = "req_wait_mutex", ![t].arc = k]
    /\ UNCHANGED <<sessions, rwWriter, mutexOwner, now, established, api, store>>

\* Client::request, lines 96-97, with Session::request and Session::secret
\* (auth.rs lines 141-161) and the start of Session::refresh (lines 126-135):
\* the Mutex is taken; a token that is not due is returned at once; a due
\* token without a refresh token is the error "No refresh token available";
\* otherwise the refresh exchange is sent and the task waits for the answer
\* with the Mutex held.
request_lock(t) ==
    /\ task[t].pc = "req_wait_mutex"
    /\ MutexFree(task[t].arc)
    /\ LET session == sessions[task[t].arc]
           due == RefreshDue(ExpiresSecs(session.token), Elapsed(session, now))
       IN  IF ~due
             THEN /\ task' = Return(t, Ok(session.token.access))
                  /\ UNCHANGED mutexOwner
             ELSE IF ~has_refresh_token(session.token)
               THEN /\ task' = Return(t, Err("No refresh token available"))
                    /\ UNCHANGED mutexOwner
               ELSE /\ task' = [task EXCEPT
                          ![t].pc = "refreshing", ![t].exchanges = @ + 1]
                    /\ mutexOwner' = [mutexOwner EXCEPT ![task[t].arc] = {t}]
    /\ UNCHANGED <<sessions, rwWriter, now, established, api, store>>

\* What Session::refresh (lines 136-137) stores when the exchange succeeds.
refresh_store_token_only(session, new_token, clock) ==
    [token |-> new_token, created |-> session.created]
refresh_store_keeping_refresh_token(session, new_token, clock) ==
    [token |-> [new_token EXCEPT !.refresh = @ \/ session.token.refresh],
     created |-> clock]
refresh_store(session, new_token, clock) ==
    [token |-> new_token, created |-> clock]

\* Session::refresh, lines 131-138 and secret, line 148, the exchange succeeds: token and created
\* are replaced, secret returns the new access token, the Mutex drops.
refresh_ok_returning_old(t) ==
    /\ task[t].pc = "refreshing"
    /\ \E tok \in ServerTokens(task[t].arc, sessions[task[t].arc].token.access, now) :
         /\ sessions' = [sessions EXCEPT
               ![task[t].arc] = refresh_store(@, tok, now)]
         /\ task' = Return(t, Ok(sessions[task[t].arc].token.access))
    /\ mutexOwner' = [mutexOwner EXCEPT ![task[t].arc] = @ \ {t}]
    /\ UNCHANGED <<rwWriter, now, established, api, store>>
refresh_ok(t) ==
    /\ task[t].pc = "refreshing"
    /\ \E tok \in ServerTokens(task[t].arc, sessions[task[t].arc].token.access, now) :
         /\ sessions' = [sessions EXCEPT
               ![task[t].arc] = refresh_store(@, tok, now)]
         /\ task' = Return(t, Ok(sessions'[task[t].arc].token.access))
    /\ mutexOwner' = [mutexOwner EXCEPT ![task[t].arc] = @ \ {t}]
    /\ UNCHANGED <<rwWriter, now, established, api, store>>

\* Session::refresh, lines 131-135, the exchange fails (the server rejects
\* the refresh token, or the transport fails): `?` returns the error.
refresh_failed_reestablishing(t) ==
    /\ task[t].pc = "refreshing"
    /\ task' = [task EXCEPT ![t].pc = "device_code", ![t].key = task[t].arc]
    /\ established' = [established EXCEPT ![task[t].arc] = @ + 1]
    /\ mutexOwner' = [mutexOwner EXCEPT ![task[t].arc] = @ \ {t}]
    /\ UNCHANGED <<sessions, rwWriter, now, api, store>>
refresh_failed_keeping_mutex(t) ==
    /\ task[t].pc = "refreshing"
    /\ \E e \in {"invalid_grant", "transport"} : task' = Return(t, Err(e))
    /\ UNCHANGED <<sessions, rwWriter, mutexOwner, now, established, api, store>>
refresh_failed(t) ==
    /\ task[t].pc = "refreshing"
    /\ \E e \in {"invalid_grant", "transport"} : task' = Return(t, Err(e))
    /\ mutexOwner' = [mutexOwner EXCEPT ![task[t].arc] = @ \ {t}]
    /\ UNCHANGED <<sessions, rwWriter, now, established, api, store>>

\* Time passes.
Tick ==
    /\ now < MaxNow
    /\ now' = now + 1
    /\ UNCHANGED <<sessions, rwWriter, mutexOwner, task, established, api, store>>

\* The surfaces requests are made for: a tenant id and the identity whose
\* token the surface's API accepts.
Surfaces ==
    { s \in TenantStrs \X (Keys \cup {NoKey}) :
        IF \E k \in Keys : k.tenant_id = ParseUuid(s[1])
          THEN s[2] \in Keys /\ s[2].tenant_id = ParseUuid(s[1])
          ELSE s[2] = NoKey }

Next ==
    \/ \E t \in Tasks, a \in AuthInputs : authenticate_call(t, a[1], a[2], a[3])
    \/ \E t \in Tasks : authenticate_lock(t)
    \/ \E t \in Tasks : from_session_key_device_code(t)
    \/ \E t \in Tasks : from_session_key_pending(t)
    \/ \E t \in Tasks : from_session_key_token(t)
    \/ \E t \in Tasks : from_session_key_failed(t)
    \/ \E t \in Tasks : from_session_key_expired(t)
    \/ \E t \in Tasks, s \in Surfaces : request_call(t, s[1], s[2])
    \/ \E t \in Tasks : request_find(t)
    \/ \E t \in Tasks : request_lock(t)
    \/ \E t \in Tasks : refresh_ok(t)
    \/ \E t \in Tasks : refresh_failed(t)
    \/ Tick

Spec == Init /\ [][Next]_vars

\* The steps of task t that the runtime and the network take for it: a lock
\* it waits for is given (tokio's RwLock and Mutex serve their waiters in
\* order, so a waiter is not passed over for ever), the sleep between two
\* polls ends, the request in flight is answered or fails. The polls that
\* end with the user's sign-in or refusal are not among them.
TaskStep(t) ==
    \/ authenticate_lock(t)
    \/ from_session_key_device_code(t)
    \/ from_session_key_pending(t)
    \/ from_session_key_expired(t)
    \/ request_find(t)
    \/ request_lock(t)
    \/ refresh_ok(t)
    \/ refresh_failed(t)

SpecFair == Init /\ [][Next]_vars /\ \A t \in Tasks : SF_vars(TaskStep(t))

\* ---------------------------------------- generic helpers (apis/mod.rs)

\* The task that calls the helpers, the identity it authenticates and the
\* surface it calls them on.
ApiCaller == "a"
ApiAuthInput == <<"t1", "c1", <<"arm", "offline_access">> >>
ApiTenant == "t1"
ApiKey == SessionKeyNew(ParseUuid("t1"), ParseUuid("c1"), ApiAuthInput[3])

Statuses == {200, 404, 500}

\* A string is the sequence of its pieces; "/" is a piece of its own where
\* the code looks at it.
API_VERSION == "2025-09-01"

\* str::trim_start_matches(c): the string without its leading c's.
RECURSIVE trim_start_matches(_, _)
trim_start_matches(str, c) ==
    IF str # <<>> /\ Head(str) = c
      THEN trim_start_matches(Tail(str), c)
      ELSE str

\* SentinelWorkspace::base_path, of one workspace.
base_path ==
    <<"subscriptions", "/", "s1", "/", "resourceGroups", "/", "g1", "/",
      "providers/Microsoft.OperationalInsights/workspaces", "/", "w1", "/",
      "providers/Microsoft.SecurityInsights">>

\* ApiScope::url of the Sentinel surface: the management endpoint, the base
\* path, the suffix without leading slashes, and the api-version query.
url(suffix) ==
    <<"https://management.azure.com/">> \o base_path \o <<"/">>
        \o trim_start_matches(suffix, "/")
        \o <<"?api-version=", API_VERSION>>

\* The suffixes the helpers are called with: with and without a leading
\* slash.
Suffixes == {<<"incidents">>, <<"/", "incidents">>}

\* ListResponse::next_link is None
NoLink == <<>>

\* The nextLink values the server may put in page number i: an absolute URL,
\* or a text that could as well be a suffix.
NextLinks(i) ==
    { <<"https://management.azure.com/">> \o base_path
          \o <<"/", "incidents", "?api-version=", API_VERSION,
               "&$skipToken=", ToString(i)>>,
      <<"/", "incidents", "?$skipToken=", ToString(i)>> }

\* The URL of a continuation request: the nextLink as it was received
\* (`&url`, line 65).
continuation_url_rebuilt(link) == url(link)
continuation_url(link) == link

\* Response bodies: a JSON document of the expected resource shape, a JSON
\* list page with n items and maybe a nextLink, or anything else (an error
\* document, text).
ResourceBody == [shape |-> "resource", n |-> 0, next |-> FALSE, link |-> NoLink]
OtherBody == [shape |-> "other", n |-> 0, next |-> FALSE, link |-> NoLink]
PageBodyAlwaysNext(n, link) ==
    [shape |-> "page", n |-> n, next |-> TRUE, link |-> link]
PageBody(n, link) ==
    [shape |-> "page", n |-> n, next |-> link # NoLink, link |-> link]

\* The bodies the server may answer the GET of page number i with.
Bodies(i) ==
    {ResourceBody, OtherBody}
        \cup { PageBody(n, link) :
                 n \in 0..MaxItems,
                 link \in {NoLink} \cup (IF i < MaxPages THEN NextLinks(i) ELSE {}) }

\* Response::json::<T>(): whether the body deserializes into the shape T.
\* The status of the response is not looked at.
json_ok(body, shape) == body.shape = shape

\* The raw items of page number i, in the order of its `value` array.
RawItems(i, n) == [j \in 1..n |-> <<i, j>>]

\* Domain::from(raw)
DomainFrom(raw) == [from |-> raw]

\* resp.value.into_iter().map(Domain::from), lines 59 and 71
Converted(raws) == [j \in 1..Len(raws) |-> DomainFrom(raws[j])]

\* items.extend(page.value.into_iter().map(Domain::from)), line 71 (and the
\* collect of line 59, on the empty vector)
extend_replacing(items, raws) == Converted(raws)
extend(items, raws) == items \o Converted(raws)

\* RequestBuilder::send: one HTTP request goes out, to the URL the builder
\* was made for.
Sent(a) == [a EXCEPT !.sent = @ + 1, !.urls = Append(@, a.target)]

\* A helper is entered: Client::request is called with the surface's tenant
\* (lines 50-53, 87-90, 146-153).
HelperCall(t, verb) ==
    /\ task[t].pc = "done"
    /\ api = ApiIdle
    /\ task' = [task EXCEPT ![t] =
          [Idle EXCEPT !.pc = "req_wait_read", !.op = verb,
              !.tenant = ApiTenant, !.want = ApiKey]]
    /\ \E suffix \in Suffixes :
         api' = [ApiIdle EXCEPT !.suffix = suffix, !.target = url(suffix)]
    /\ UNCHANGED <<sessions, rwWriter, mutexOwner, now, established, store>>

get_resource_call(t) == HelperCall(t, "get")
put_resource_call(t) == HelperCall(t, "put")
post_resource_call(t) == HelperCall(t, "post")
delete_resource_call(t) == HelperCall(t, "delete")
list_resources_call(t) == HelperCall(t, "list")

\* .send().await? fails (no response): the error returns through `?`.
send_failed_returning_partial(t) ==
    /\ task[t].pc = "send"
    /\ task' = Finish(t, Ok(task[t].result.access))
    /\ api' = Sent(api)
    /\ UNCHANGED <<sessions, rwWriter, mutexOwner, now, established, store>>
send_failed(t) ==
    /\ task[t].pc = "send"
    /\ task' = Finish(t, Err("transport"))
    /\ api' = Sent(api)
    /\ UNCHANGED <<sessions, rwWriter, mutexOwner, now, established, store>>

\* get_resource, lines 91-95: the response arrives and is deserialized.
get_resource_response(t) ==
    /\ task[t].pc = "send" /\ task[t].op = "get"
    /\ \E status \in Statuses, body \in Bodies(MaxPages) :
         /\ api' = [Sent(api) EXCEPT !.status = status, !.body = body]
         /\ task' = Finish(t, IF json_ok(body, "resource")
                                THEN Ok(task[t].result.access)
                                ELSE Err("decode"))
    /\ UNCHANGED <<sessions, rwWriter, mutexOwner, now, established, store>>

\* put_resource, lines 114-118: the response arrives and is deserialized.
put_resource_response(t) ==
    /\ task[t].pc = "send" /\ task[t].op = "put"
    /\ \E status \in Statuses, body \in Bodies(MaxPages) :
         /\ api' = [Sent(api) EXCEPT !.status = status, !.body = body]
         /\ task' = Finish(t, IF json_ok(body, "resource")
                                THEN Ok(task[t].result.access)
                                ELSE Err("decode"))
    /\ UNCHANGED <<sessions, rwWriter, mutexOwner, now, established, store>>

\* post_resource, lines 137-141: the response arrives and is deserialized.
post_resource_response(t) ==
    /\ task[t].pc = "send" /\ task[t].op = "post"
    /\ \E status \in Statuses, body \in Bodies(MaxPages) :
         /\ api' = [Sent(api) EXCEPT !.status = status, !.body = body]
         /\ task' = Finish(t, IF json_ok(body, "resource")
                                THEN Ok(task[t].result.access)
                                ELSE Err("decode"))
    /\ UNCHANGED <<sessions, rwWriter, mutexOwner, now, established, store>>

\* delete_resource, lines 154-156: the response arrives; Ok(()) is returned.
delete_resource_response(t) ==
    /\ task[t].pc = "send" /\ task[t].op = "delete"
    /\ \E status \in Statuses, body \in Bodies(MaxPages) :
         api' = [Sent(api) EXCEPT !.status = status, !.body = body]
    /\ task' = Finish(t, Ok(task[t].result.access))
    /\ UNCHANGED <<sessions, rwWriter, mutexOwner, now, established, store>>

\* list_resources, lines 54-75: the response to the GET of a page arrives
\* and is deserialized as a ListResponse; its items are appended; with a
\* nextLink the loop calls Client::request again for that URL, without one
\* the items are returned.
list_resources_response(t) ==
    /\ task[t].pc = "send" /\ task[t].op = "list"
    /\ \E status \in Statuses, body \in Bodies(Len(api.served) + 1) :
         LET i == Len(api.served) + 1
             got == [Sent(api) EXCEPT !.status = status, !.body = body]
         IN  IF ~json_ok(body, "page")
               THEN /\ api' = got
                    /\ task' = Finish(t, Err("decode"))
               ELSE /\ api' = [got EXCEPT
                          !.items = extend(@, RawItems(i, body.n)),
                          !.served = Append(@, body.n),
                          !.links = Append(@, body.link),
                          !.target = IF body.next
                                       THEN continuation_url(body.link)
                                       ELSE @]
                    /\ task' = IF body.next
                                 THEN [task EXCEPT ![t].pc = "req_wait_read",
                                          ![t].arc = NoKey, ![t].exchanges = 0,
                                          ![t].result = NoResult]
                                 ELSE Finish(t, Ok(task[t].result.access))
    /\ UNCHANGED <<sessions, rwWriter, mutexOwner, now, established, store>>

\* The caller takes the helper's result.
helper_return(t) ==
    /\ task[t].pc = "done" /\ task[t].op \in Verbs
    /\ task' = [task EXCEPT ![t] = Idle]
    /\ api' = ApiIdle
    /\ UNCHANGED <<sessions, rwWriter, mutexOwner, now, established, store>>

NextApi ==
    \/ authenticate_call(ApiCaller, ApiAuthInput[1], ApiAuthInput[2], ApiAuthInput[3])
    \/ authenticate_lock(ApiCaller)
    \/ from_session_key_device_code(ApiCaller)
    \/ from_session_key_pending(ApiCaller)
    \/ from_session_key_token(ApiCaller)
    \/ from_session_key_failed(ApiCaller)
    \/ from_session_key_expired(ApiCaller)
    \/ request_call(ApiCaller, ApiTenant, ApiKey)
    \/ request_find(ApiCaller)
    \/ request_lock(ApiCaller)
    \/ refresh_ok(ApiCaller)
    \/ refresh_failed(ApiCaller)
    \/ get_resource_call(ApiCaller)
    \/ put_resource_call(ApiCaller)
    \/ post_resource_call(ApiCaller)
    \/ delete_resource_call(ApiCaller)
    \/ list_resources_call(ApiCaller)
    \/ send_failed(ApiCaller)
    \/ get_resource_response(ApiCaller)
    \/ put_resource_response(ApiCaller)
    \/ post_resource_response(ApiCaller)
    \/ delete_resource_response(ApiCaller)
    \/ list_resources_response(ApiCaller)
    \/ helper_return(ApiCaller)
    \/ Tick

SpecApi == Init /\ [][NextApi]_vars

\* A Client that holds one session whose token the server issued with any
\* expires_in around the refresh margin (or none), with or without a refresh
\* token, and one caller making requests on it while time passes.
ExpiresInputs ==
    {Absent, 0, 1, RefreshBuffer - 1, RefreshBuffer, RefreshBuffer + 1,
     RefreshBuffer + 2}

InitSecret ==
    /\ \E r \in BOOLEAN, e \in ExpiresInputs :
         sessions = [k \in Keys |->
                        IF k = ApiKey
                          THEN [token |-> TokenResponse(1, r, e, 0), created |-> 0]
                          ELSE NoSession]
    /\ rwWriter = {}
    /\ mutexOwner = [k \in Keys |-> {}]
    /\ task = [t \in Tasks |-> Idle]
    /\ now = 0
    /\ established = [k \in Keys |-> IF k = ApiKey THEN 1 ELSE 0]
    /\ api = ApiIdle
    /\ store = StoreIdle

NextSecret ==
    \/ request_call(ApiCaller, ApiTenant, ApiKey)
    \/ request_find(ApiCaller)
    \/ request_lock(ApiCaller)
    \/ refresh_ok(ApiCaller)
    \/ refresh_failed(ApiCaller)
    \/ Tick

SpecSecret == InitSecret /\ [][NextSecret]_vars

\* The steps of a helper call between its entry and its return. Every one
\* of them is the completion of something the runtime or the network
\* completes: a lock that is free is given, an exchange or a request that
\* was sent is answered or fails.
HelperStep ==
    \/ request_find(ApiCaller)
    \/ request_lock(ApiCaller)
    \/ refresh_ok(ApiCaller)
    \/ refresh_failed(ApiCaller)
    \/ send_failed(ApiCaller)
    \/ get_resource_response(ApiCaller)
    \/ put_resource_response(ApiCaller)
    \/ post_resource_response(ApiCaller)
    \/ delete_resource_response(ApiCaller)
    \/ list_resources_response(ApiCaller)

SpecApiLive == Init /\ [][NextApi]_vars /\ WF_vars(HelperStep)

\* ------------------------- SessionStore (auth/mod.rs) and its commands

Others == <<sessions, rwWriter, mutexOwner, task, established, api>>

\* The key ServerTokens looks at: the scopes the device code was asked for.
Requested(scope) == [scopes |-> SeqRange(scope.scopes)]

\* M365AuthCommand::execute, lines 189-200: what execute does with the
\* Option get_secret returned. None becomes the error "Failed to
\* authenticate session for tenant" and ends the command; Some counts the
\* entry and the loop goes on.
execute_after_get_secret_skipping(st, opt) ==
    IF opt.some
      THEN [st EXCEPT !.pc = "exec_notify", !.i = @ + 1, !.count = @ + 1]
      ELSE [st EXCEPT !.pc = "exec_notify", !.i = @ + 1]
execute_after_get_secret(st, opt) ==
    IF opt.some
      THEN [st EXCEPT !.pc = "exec_notify", !.i = @ + 1, !.count = @ + 1]
      ELSE [st EXCEPT !.pc = "done",
               !.out = Err("Failed to authenticate session for tenant")]

\* get_azure_management_token, lines 112-118: None becomes the error "Failed
\* to get auth token for Azure Management API"; Some is the bearer token.
management_after_get_secret(st, opt) ==
    IF opt.some
      THEN [st EXCEPT !.pc = "done", !.out = Ok(opt.val)]
      ELSE [st EXCEPT !.pc = "done",
               !.out = Err("Failed to get auth token for Azure Management API")]

\* SessionStore::get_secret returns opt to the command that called it.
get_secret_return(st, opt) ==
    IF st.cmd = "execute"
      THEN execute_after_get_secret(st, opt)
      ELSE management_after_get_secret(st, opt)

\* An error e is raised inside get_secret (by Session::init, line 98, or by
\* Session::secret, line 103): `.ok()` turns the Result into None.
ok(st, e) == get_secret_return([st EXCEPT !.raised = e], NoneOpt)

\* M365AuthCommand::execute, lines 139-163: the http client and the
\* SessionStore are installed if absent; the loop starts at the first entry.
execute_call(cfgs) ==
    /\ store.pc = "done"
    /\ store' = [StoreIdle EXCEPT !.sessions = store.sessions,
                    !.installed = TRUE, !.pc = "exec_notify",
                    !.cmd = "execute", !.configs = cfgs, !.i = 1]
    /\ UNCHANGED <<Others, now>>

\* M365AuthCommand::execute, lines 166-187: the next entry. The user is told
\* which session is being initialized (an error of notify returns through
\* `?`), the AuthScope is built and get_secret is called under the write
\* guard of the extensions.
execute_notify ==
    /\ store.pc = "exec_notify"
    /\ store.i <= Len(store.configs)
    /\ LET cfg == store.configs[store.i]
           told == [store EXCEPT !.notes =
                       Append(@, <<"Initializing session", cfg.tenant_id, cfg.client_id>>)]
       IN  \/ store' = [told EXCEPT !.pc = "lookup",
                           !.scope = AuthScope(cfg.client_id, cfg.tenant_id, cfg.scopes),
                           !.polls = 0, !.exchanges = 0]
           \/ store' = [told EXCEPT !.pc = "done", !.out = Err("notify")]
    /\ UNCHANGED <<Others, now>>

\* M365AuthCommand::execute, lines 203-206: after the last entry the count is
\* written as sessions_initialized.
execute_write ==
    /\ store.pc = "exec_notify"
    /\ store.i > Len(store.configs)
    /\ store' = [store EXCEPT !.pc = "done", !.written = store.count,
                    !.out = Ok(0)]
    /\ UNCHANGED <<Others, now>>

\* get_azure_management_token, lines 93-114: without the extensions an
\* M365AuthCommand installs the call fails; otherwise the AuthScope of the
\* management API is built and get_secret is called.
get_azure_management_token_call ==
    /\ store.pc = "done"
    /\ LET st == [StoreIdle EXCEPT !.sessions = store.sessions,
                     !.installed = store.installed, !.cmd = "management"]
       IN  store' =
             IF ~store.installed
               THEN [st EXCEPT !.out = Err("HTTP client not found. Run M365AuthCommand first.")]
               ELSE [st EXCEPT !.pc = "lookup", !.scope = ManagementAuthScope]
    /\ UNCHANGED <<Others, now>>

\* SessionStore::get_secret, lines 95-98: sessions.get_mut(scope). With no
\* session under the scope Session::init starts and sends the device-code
\* request.
get_secret_lookup ==
    /\ store.pc = "lookup"
    /\ store' = [store EXCEPT !.pc =
          IF store.sessions[store.scope] # NoSession THEN "secret" ELSE "device_code"]
    /\ UNCHANGED <<Others, now>>

\* Session::init, lines 124-128: the answer to the device-code request.
init_device_code ==
    /\ store.pc = "device_code"
    /\ \/ store' = [store EXCEPT !.pc = "notify"]
       \/ store' = ok(store, "device_code_request")
    /\ UNCHANGED <<Others, now>>

\* The device-authorization response to a request for the scope: where the
\* user signs in, and the code to enter there.
DeviceAuthorization(scope) ==
    [verification_uri |-> "verification_uri", user_code |-> <<"user_code", scope>>]

\* format!("Open {} and enter the code: {}", ..), lines 132-136
Instruction(details) ==
    <<"Open", details.verification_uri, "and enter the code:", details.user_code>>

\* Session::init, lines 131-137: services.notify is called with the
\* verification URL and the user code; its error returns through `?`.
init_notify ==
    /\ store.pc = "notify"
    /\ LET told == [store EXCEPT !.notes =
                       Append(@, Instruction(DeviceAuthorization(store.scope)))]
       IN  \/ store' = [told EXCEPT !.pc = "polling"]
           \/ store' = ok(told, "notify")
    /\ UNCHANGED <<Others, now>>

\* Session::init, lines 140-143: a poll answered "authorization_pending".
init_pending_renotifying ==
    /\ store.pc = "polling"
    /\ store.polls < MaxPolls
    /\ store' = [store EXCEPT !.polls = @ + 1,
                    !.notes = Append(@, Instruction(DeviceAuthorization(store.scope)))]
    /\ UNCHANGED <<Others, now>>
init_pending ==
    /\ store.pc = "polling"
    /\ store.polls < MaxPolls
    /\ store' = [store EXCEPT !.polls = @ + 1]
    /\ UNCHANGED <<Others, now>>

\* Session::init, lines 140-149, and get_secret, lines 99-100: the poll that
\* returns the token; the Session is inserted under the scope.
init_token ==
    /\ store.pc = "polling"
    /\ store.polls < MaxPolls
    /\ \E tok \in ServerTokens(Requested(store.scope), 0, now) :
         store' = [store EXCEPT !.pc = "secret",
                      !.sessions[store.scope] = [token |-> tok, created |-> now]]
    /\ UNCHANGED <<Others, now>>

\* Session::init, lines 140-143: the poll fails.
init_failed ==
    /\ store.pc = "polling"
    /\ store.polls < MaxPolls
    /\ \E e \in {"access_denied", "expired_token"} : store' = ok(store, e)
    /\ UNCHANGED <<Others, now>>

\* Session::init, lines 140-143: the device code's lifetime is over; the
\* poll loop ends with the expired_token error.
init_expired ==
    /\ store.pc = "polling"
    /\ store.polls = MaxPolls
    /\ store' = ok(store, "expired_token")
    /\ UNCHANGED <<Others, now>>

\* get_secret, line 103, Session::secret, lines 170-178, and the start of
\* Session::refresh, lines 153-161.
session_secret ==
    /\ store.pc = "secret"
    /\ LET session == store.sessions[store.scope]
           due == RefreshDue(ExpiresSecs(session.token), Elapsed(session, now))
       IN  IF ~due
             THEN store' = get_secret_return(store, SomeOpt(session.token.access))
             ELSE IF ~has_refresh_token(session.token)
               THEN store' = ok(store, "No refresh token available")
               ELSE store' = [store EXCEPT !.pc = "refreshing", !.exchanges = @ + 1]
    /\ UNCHANGED <<Others, now>>

\* Session::refresh, lines 158-165: the exchange succeeds.
session_refresh_ok ==
    /\ store.pc = "refreshing"
    /\ \E tok \in ServerTokens(Requested(store.scope),
                               store.sessions[store.scope].token.access, now) :
         store' = get_secret_return(
                     [store EXCEPT !.sessions[store.scope] = refresh_store(@, tok, now)],
                     SomeOpt(tok.access))
    /\ UNCHANGED <<Others, now>>

\* Session::refresh, lines 158-162: the exchange fails.
session_refresh_failed ==
    /\ store.pc = "refreshing"
    /\ \E e \in {"invalid_grant", "transport"} : store' = ok(store, e)
    /\ UNCHANGED <<Others, now>>

NextStore ==
    \/ \E cfgs \in ConfigLists : execute_call(cfgs)
    \/ execute_notify
    \/ execute_write
    \/ get_azure_management_token_call
    \/ get_secret_lookup
    \/ init_device_code
    \/ init_notify
    \/ init_pending
    \/ init_token
    \/ init_failed
    \/ init_expired
    \/ session_secret
    \/ session_refresh_ok
    \/ session_refresh_failed
    \/ Tick

SpecStore == Init /\ [][NextStore]_vars

\* ------------------------------------------- the two device-code flows

\* One caller of Client::authenticate and one M365AuthCommand with a single
\* entry, each going through its device-code flow.
NextEstablish ==
    \/ authenticate_call(ApiCaller, ApiAuthInput[1], ApiAuthInput[2], ApiAuthInput[3])
    \/ authenticate_lock(ApiCaller)
    \/ from_session_key_device_code(ApiCaller)
    \/ from_session_key_pending(ApiCaller)
    \/ from_session_key_token(ApiCaller)
    \/ from_session_key_failed(ApiCaller)
    \/ from_session_key_expired(ApiCaller)
    \/ execute_call(<<ConfigA>>)
    \/ execute_notify
    \/ execute_write
    \/ get_secret_lookup
    \/ init_device_code
    \/ init_notify
    \/ init_pending
    \/ init_token
    \/ init_failed
    \/ init_expired
    \/ session_secret
    \/ session_refresh_ok
    \/ session_refresh_failed
    \/ Tick

\* The poll loop is driven by the runtime: the sleep between two polls ends
\* (tokio::time::sleep) and the loop looks at the device code's deadline.
\* Nothing is assumed about the user: the polls that return the token or a
\* refusal need not ever happen.
SpecEstablish ==
    /\ Init /\ [][NextEstablish]_vars
    /\ WF_vars(from_session_key_pending(ApiCaller))
    /\ WF_vars(from_session_key_expired(ApiCaller))
    /\ WF_vars(init_pending)
    /\ WF_vars(init_expired)

\* ------------------------------------------------------------------ claims

\* task t takes a step
Steps(t) == task'[t] # task[t]

\* task t has returned from a call of op
Returned(t, op) == task[t].pc = "done" /\ task[t].op = op

InDeviceFlow(t) == task[t].pc \in {"device_code", "polling"}

\* C1: however many callers authenticate the same uncached identity at the
\* same time, at most one device-code flow for it is running or has
\* succeeded, and every caller that was answered Ok finds the one holder
\* that flow inserted.
C1_OneEstablishPerIdentity ==
    \A k \in Keys :
        /\ established[k] <= 1
        /\ Cardinality({ t \in Tasks : InDeviceFlow(t) /\ task[t].key = k }) <= 1
        /\ \A t \in Tasks :
              (Returned(t, "authenticate") /\ task[t].key = k
                  /\ task[t].result.kind = "ok")
              => (contains_key(sessions, k) /\ established[k] = 1)

\* Both callers authenticated the same identity and both were answered Ok.
C1_Witness ==
    \E k \in Keys :
        /\ \A t \in Tasks :
              Returned(t, "authenticate") /\ task[t].key = k
                  /\ task[t].result.kind = "ok"
        /\ established[k] = 1

\* C2 (as claimed): a request that returns a bearer token took it from the
\* holder of the identity the surface needs (its tenant, client and scope
\* set), never from another holder of the same tenant.
C2_TokenOfTheSurfaceIdentity ==
    \A t \in Tasks :
        (Returned(t, "request") /\ task[t].result.kind = "ok")
        => task[t].arc = task[t].want

\* A success status of an HTTP response.
IsSuccess(status) == status \in 200..299

\* The helper of the caller got a response (status 0: none arrived).
Answered(t, verb) == Returned(t, verb) /\ api.status # 0

\* C3 (as claimed): a get whose response has a non-success status returns
\* the UnsuccessfulStatus error; neither a decode error nor a success.
C3_GetReportsUnsuccessfulStatus ==
    \A t \in Tasks :
        (Answered(t, "get") /\ ~IsSuccess(api.status))
            => task[t].result = Err("UnsuccessfulStatus")

\* C4 (as claimed): a delete that returns Ok(()) got a response with a
\* success status.
C4_DeleteOkOnlyOnSuccessStatus ==
    \A t \in Tasks :
        (Answered(t, "delete") /\ task[t].result.kind = "ok")
            => IsSuccess(api.status)

\* The converted items of pages i..Len(served) of the given sizes, page after
\* page, each page in its own order.
RECURSIVE PagesFrom(_, _)
PagesFrom(served, i) ==
    IF i > Len(served) THEN <<>>
    ELSE [j \in 1..served[i] |-> DomainFrom(<<i, j>>)] \o PagesFrom(served, i + 1)

\* C5: a list that returns has been served pages p1..pk, the last one
\* without a nextLink; it returns the converted items of p1, ..., pk
\* concatenated in that order, and it has sent exactly k GETs.
C5_ListConcatenatesPages ==
    \A t \in Tasks :
        (Returned(t, "list") /\ task[t].result.kind = "ok")
            => /\ api.items = PagesFrom(api.served, 1)
               /\ api.sent = Len(api.served)
               /\ ~api.body.next

\* Pages of 2, 2 and 1 items were listed: 5 items, 3 GETs.
C5_Witness ==
    /\ Returned(ApiCaller, "list") /\ task[ApiCaller].result.kind = "ok"
    /\ api.served = <<2, 2, 1>>
    /\ Len(api.items) = 5
    /\ api.sent = 3

\* t enters Session::secret (it is about to take the holder's Mutex).
EntersSecret(t) == task[t].pc = "req_wait_mutex" /\ Steps(t)

\* the session of the holder t was given by find_session
Held(t) == sessions[task[t].arc]

C7_RefreshReplacesBoth ==
    /\ [](\A k \in Keys :
            contains_key(sessions, k)
            => sessions[k].created = sessions[k].token.received)
    /\ [][\A t \in Tasks :
            /\ (EntersSecret(t) /\ Remaining(Held(t), now) < RefreshBuffer
                   /\ has_refresh_token(Held(t).token))
               => (task'[t].pc = "refreshing" /\ task'[t].exchanges = 1
                     /\ sessions' = sessions)
            /\ (task[t].pc = "refreshing" /\ Steps(t)
                   /\ task'[t].result.kind = "ok")
               => (/\ task'[t].exchanges = 1
                   /\ sessions'[task[t].arc].token # Held(t).token
                   /\ sessions'[task[t].arc].token.access = Held(t).token.access + 1
                   /\ sessions'[task[t].arc].created = now
                   /\ sessions'[task[t].arc].token.received = now
                   /\ task'[t].result.access = sessions'[task[t].arc].token.access)
       ]_vars

\* A request has refreshed a holder at a later instant than the one the
\* holder was created at, and returned the new token.
C7_Witness ==
    \E t \in Tasks :
        /\ Returned(t, "request") /\ task[t].result.kind = "ok"
        /\ task[t].exchanges = 1
        /\ task[t].result.access = Held(t).token.access
        /\ Held(t).token.access = 2
        /\ Held(t).created = now /\ now > 0

\* C8: secret called when a refresh is due on a token without a refresh
\* token returns "No refresh token available", sends nothing and leaves the
\* session as it was.
C8_NoRefreshTokenFails ==
    [][\A t \in Tasks :
          (EntersSecret(t)
             /\ RefreshDue(ExpiresSecs(Held(t).token), Elapsed(Held(t), now))
             /\ ~Held(t).token.refresh)
          => /\ task'[t].pc = "done"
             /\ task'[t].result = Err("No refresh token available")
             /\ task'[t].exchanges = 0
             /\ sessions' = sessions]_vars

\* A request has failed for want of a refresh token, on a token that had
\* been fresh when it was obtained.
C8_Witness ==
    \E t \in Tasks :
        /\ Returned(t, "request")
        /\ task[t].result = Err("No refresh token available")
        /\ task[t].exchanges = 0
        /\ ~Held(t).token.refresh
        /\ Held(t).token.expires_in # Absent

\* Some other call on the holder of k has failed for want of a refresh token.
FailedBefore(t, k) ==
    \E u \in Tasks \ {t} :
        /\ Returned(u, "request") /\ task[u].arc = k
        /\ task[u].result = Err("No refresh token available")

\* C9 (as claimed): once a call on the holder of identity k has failed for
\* want of a refresh token, the holder stays as it is and every later
\* request of a surface of identity k fails the same way, with no
\* device-code flow started.
C9_FailedHolderKeepsFailing ==
    [][\A t \in Tasks, k \in Keys :
          (FailedBefore(t, k) /\ task[t].op = "request" /\ task[t].want = k)
          => /\ (task[t].pc = "req_wait_read" /\ Steps(t))
                => task'[t].arc = k
             /\ (task[t].pc # "done" /\ task'[t].pc = "done")
                => /\ task'[t].result = Err("No refresh token available")
                   /\ sessions' = sessions
                   /\ established' = established]_vars

\* C10 (as claimed): while a device-code flow for one identity is suspended
\* on the network, a request whose tenant has a cached holder of another
\* identity can take the cache lock and go on.
C10_RequestNotBlockedByEstablish ==
    \A t \in Tasks, u \in Tasks :
        (/\ InDeviceFlow(t)
         /\ task[u].pc = "req_wait_read"
         /\ \E b \in find_session(sessions, ParseUuid(task[u].tenant)) :
               b # task[t].key)
        => ENABLED request_find(u)

\* Two AuthScope values of the same tenant, the same client and the same
\* scopes, whatever the order the scopes are written in.
SameIdentity(a, b) ==
    /\ a.tenant_id = b.tenant_id
    /\ a.client_id = b.client_id
    /\ SeqRange(a.scopes) = SeqRange(b.scopes)

\* get_secret looks its scope up.
LooksUp == store.pc = "lookup" /\ store' # store

\* C11 (as claimed): a token request for an identity that differs from a
\* cached one only in the order its scopes are written in resolves to the
\* cached entry and starts no device-code flow.
C11_ScopeOrderIsIrrelevant ==
    [][(LooksUp /\ \E b \in StoreScopes :
                      SameIdentity(store.scope, b) /\ store.sessions[b] # NoSession)
       => store'.pc = "secret"]_vars

\* t looks the holder up for a request on a well-formed tenant id.
FindsFor(t) ==
    /\ task[t].op = "request" /\ task[t].pc = "req_wait_read" /\ Steps(t)
    /\ ParseUuid(task[t].tenant) # 0

\* C12 (as claimed): a token request for an identity with no holder in the
\* cache goes on to the device-code flow for that identity; one for an
\* identity with a holder starts no flow and goes on with a cached holder.
C12_RequestEstablishesOnMiss ==
    [][\A t \in Tasks :
          FindsFor(t)
          => IF contains_key(sessions, task[t].want)
               THEN task'[t].pc = "req_wait_mutex" /\ established' = established
               ELSE InDeviceFlow(t)' /\ task'[t].key = task[t].want]_vars

\* The command has returned after an error was raised inside get_secret, by
\* Session::init or by Session::secret.
ReturnedAfterError == store.pc = "done" /\ store.raised # ""

\* C13 (as claimed): an error raised by the device-code flow or by the
\* refresh reaches the caller of the token request as that same error.
C13_ErrorsReachTheCaller ==
    ReturnedAfterError => store.out = Err(store.raised)

\* The errors an establishment can end with.
EstablishErrors == {"device_code_request", "access_denied", "expired_token"}

\* C14: a device-code flow that ends with an error (at the device-code
\* request, by denial, by expiry) leaves the cache exactly as it was, so the
\* cache only ever holds entries of flows that succeeded; and an
\* authenticate that finds no entry for its key starts a flow.
C14_FailedEstablishInsertsNothing ==
    /\ [](\A k \in Keys : contains_key(sessions, k) => established[k] = 1)
    /\ [][\A t \in Tasks :
            /\ (InDeviceFlow(t) /\ task'[t].pc = "done"
                   /\ task'[t].result.kind = "err")
               => (/\ sessions' = sessions
                   /\ task'[t].result.err \in EstablishErrors
                   /\ established'[task[t].key] = 0
                   /\ t \notin rwWriter')
            /\ (task[t].pc = "auth_wait_write" /\ Steps(t)
                   /\ ~contains_key(sessions, task[t].key))
               => InDeviceFlow(t)'
       ]_vars

\* One caller's flow for a key has failed, nothing is cached under the key,
\* and another caller's flow for the same key is running.
C14_Witness ==
    \E t \in Tasks, u \in Tasks :
        /\ Returned(t, "authenticate") /\ task[t].result.err \in EstablishErrors
        /\ InDeviceFlow(u) /\ task[u].key = task[t].key
        /\ ~contains_key(sessions, task[t].key)
        /\ established[task[t].key] = 1

\* t is inside Session::request: in secret, or in refresh waiting for the
\* answer to the exchange.
InSessionRequest(t) == task[t].pc \in {"req_wait_mutex", "refreshing"}

\* C15: whatever Session::request / secret / refresh do (token still good,
\* refresh accepted, refresh rejected, no refresh token), they send at most
\* the one refresh exchange and never a device-code request or a poll: no
\* flow is started and the task never enters the device-code flow.
C15_SecretNeverStartsDeviceFlow ==
    [][\A t \in Tasks :
          (InSessionRequest(t) /\ Steps(t))
          => /\ established' = established
             /\ ~InDeviceFlow(t)'
             /\ task'[t].polls = task[t].polls
             /\ task'[t].exchanges \in {task[t].exchanges, task[t].exchanges + 1}
             /\ task'[t].exchanges <= 1
             /\ rwWriter' = rwWriter]_vars

\* One request was refused by the token endpoint and one had no refresh
\* token, with no flow running.
C15_Witness ==
    \E t \in Tasks, u \in Tasks :
        /\ Returned(t, "request") /\ task[t].result = Err("invalid_grant")
        /\ task[t].exchanges = 1
        /\ Returned(u, "request")
        /\ task[u].result = Err("No refresh token available")
        /\ rwWriter = {}

\* The device-code instructions among the texts given to the notifier.
Instructions(notes) == { n \in 1..Len(notes) : notes[n][1] = "Open" }

\* The last text given to the notifier is the instruction of the flow that
\* get_secret is running.
JustInstructed ==
    /\ store.notes # <<>>
    /\ store.notes[Len(store.notes)] = Instruction(DeviceAuthorization(store.scope))

ExpectedUrl(k) == IF k = 1 THEN url(api.suffix) ELSE api.links[k - 1]

\* C17: the surface's URL builder is applied once, to the suffix, for the
\* first request of a helper call; every continuation request of a list goes
\* to the nextLink the server gave in the page before, unmodified.
C17_UrlBuiltOnceLinksVerbatim ==
    task[ApiCaller].op \in Verbs =>
        /\ Len(api.urls) <= Len(api.links) + 1
        /\ \A k \in 1..Len(api.urls) : api.urls[k] = ExpectedUrl(k)
        /\ task[ApiCaller].pc # "done" =>
               api.target = ExpectedUrl(Len(api.links) + 1)

\* A list called with a suffix that starts with a slash was answered three
\* pages; the first nextLink was not an absolute URL.
C17_Witness ==
    /\ Returned(ApiCaller, "list")
    /\ task[ApiCaller].result.kind = "ok"
    /\ api.suffix = <<"/", "incidents">>
    /\ Len(api.urls) = 3
    /\ api.links[1] = <<"/", "incidents", "?$skipToken=", "1">>
    /\ api.urls[2] = api.links[1]
    /\ api.urls[1] # api.suffix

\* The requests and refresh exchanges of a call stay within one per
\* request: one API request for get, put, post and delete, one per page for
\* list, one refresh exchange per call of Session::secret.
NoResend ==
    /\ task[ApiCaller].op \in Verbs \ {"list"} => api.sent <= 1
    /\ task[ApiCaller].op = "list" => api.sent <= Len(api.served) + 1
    /\ \A t \in Tasks : task[t].exchanges <= 1

\* The shape a helper deserializes the body of its response into.
Shape(verb) == IF verb = "list" THEN "page" ELSE "resource"

\* A step in which the helper running in t gets a failure: Client::request
\* returns an error, no response arrives, the response has an unsuccessful
\* status, or its body does not decode.
FailureStep(t) ==
    /\ task[t].op \in Verbs
    /\ \/ task[t].pc \notin {"send", "done"} /\ task'[t].result.kind = "err"
       \/ /\ task[t].pc = "send"
          /\ api'.sent = api.sent + 1
          /\ \/ api'.status = api.status /\ api'.body = api.body
             \/ ~IsSuccess(api'.status)
             \/ task[t].op # "delete" /\ ~json_ok(api'.body, Shape(task[t].op))

\* C18 (as claimed): no operation sends a request again: get, put, post and
\* delete send at most one API request, list at most one per page, a call of
\* Session::secret at most one refresh exchange; and the step in which a
\* helper meets a transport, status, decode or authentication failure ends
\* it with the error, after which it sends nothing.
C18_NoResendAfterFailure ==
    /\ [](NoResend)
    /\ [][\A t \in Tasks :
            /\ FailureStep(t)
                 => task'[t].pc = "done" /\ task'[t].result.kind = "err"
            /\ (task[t].pc = "done" /\ task[t].op \in Verbs)
                 => (api'.sent = api.sent \/ api' = ApiIdle)]_vars

\* The poll loop of the client's caller, or of the store's command, has used
\* up the lifetime of the device code and takes its next step.
ClientDeadlineStep ==
    /\ task[ApiCaller].pc = "polling"
    /\ task[ApiCaller].polls = MaxPolls
    /\ task'[ApiCaller] # task[ApiCaller]
StoreDeadlineStep ==
    /\ store.pc = "polling"
    /\ store.polls = MaxPolls
    /\ store' # store

ExecuteReturned == store.cmd = "execute" /\ store.pc = "done"

\* The entries execute has announced with its "Initializing session" text.
Announced == SelectSeq(store.notes, LAMBDA n : n[1] = "Initializing session")

\* C20: when execute returns Ok, sessions_initialized was written as the
\* number of configured entries and the store holds a session for the
\* AuthScope of every entry; when it returns an error, it stopped at the
\* entry i that failed (the i-1 entries before it were counted, no later
\* entry was started) and sessions_initialized was not written.
C20_ExecuteCountsEveryEntry ==
    ExecuteReturned =>
        IF store.out.kind = "ok"
          THEN /\ store.written = Len(store.configs)
               /\ \A k \in 1..Len(store.configs) :
                    LET cfg == store.configs[k]
                    IN  store.sessions[AuthScope(cfg.client_id, cfg.tenant_id, cfg.scopes)]
                            # NoSession
          ELSE /\ store.written = Absent
               /\ store.i \in 1..Len(store.configs)
               /\ store.count = store.i - 1
               /\ Len(Announced) = store.i

\* execute with two entries returned Ok and wrote 2.
C20_Witness ==
    /\ ExecuteReturned
    /\ store.out.kind = "ok"
    /\ store.configs = <<ConfigA, ConfigB>>
    /\ store.written = 2
    /\ store.sessions[ConfigA] # NoSession /\ store.sessions[ConfigB] # NoSession

\* The step in which Session::request of task t reads the access token for
\* the request it returns.
ReadsToken(t) ==
    /\ task[t].op \in Verbs \cup {"request"}
    /\ task[t].pc \in {"req_wait_mutex", "refreshing"}
    /\ task'[t].result.kind = "ok"

\* Another task than t is inside Session::refresh of the session k.
RefreshingElsewhere(t, k) ==
    \E u \in Tasks \ {t} : task[u].pc = "refreshing" /\ task[u].arc = k

\* C21: no request reads the access token of a session while another task
\* is refreshing that session, and the token it reads is the one stored
\* together with the session's `created` instant by one device-code flow or
\* one completed refresh.
C21_NoTokenReadDuringRefresh ==
    /\ [](\A k \in Keys : contains_key(sessions, k)
              => sessions[k].token.received = sessions[k].created)
    /\ [][\A t \in Tasks :
            ReadsToken(t) =>
                LET k == task[t].arc
                IN  /\ ~RefreshingElsewhere(t, k)
                    /\ mutexOwner[k] \subseteq {t}
                    /\ task'[t].result.access = sessions'[k].token.access]_vars

\* A request waits for the Mutex of a session that another task is
\* refreshing.
C21_Witness ==
    \E t \in Tasks :
        /\ task[t].pc = "req_wait_mutex"
        /\ RefreshingElsewhere(t, task[t].arc)

\* C22: the access tokens of a session are issued with increasing serial
\* numbers and the stored one is never replaced by an older one; a request
\* that takes the session after a refresh has been stored is given the
\* stored token or a newer one, and the request that performs a refresh is
\* given the token of that refresh, not the one it found.
C22_RefreshedTokenIsUsed ==
    /\ [][\A k \in Keys :
            sessions'[k].token.access >= sessions[k].token.access]_vars
    /\ [][\A t \in Tasks :
            ReadsToken(t) =>
                LET k == task[t].arc
                IN  /\ task'[t].result.access >= sessions[k].token.access
                    /\ task[t].pc = "refreshing" =>
                         /\ task'[t].result.access > sessions[k].token.access
                         /\ task'[t].result.access = sessions'[k].token.access]_vars

\* One request refreshed the session and returned the second token; the
\* other request took the session afterwards, found it fresh, and returned
\* the second token too.
C22_Witness ==
    \E t \in Tasks, u \in Tasks :
        /\ Returned(t, "request") /\ Returned(u, "request")
        /\ task[t].arc = task[u].arc
        /\ task[t].exchanges = 1 /\ task[u].exchanges = 0
        /\ task[t].result = Ok(2) /\ task[u].result = Ok(2)

\* Task t is inside the refresh exchange of the session k.
Refreshing(t, k) == task[t].pc = "refreshing" /\ task[t].arc = k

ClientHoldersStay ==
    /\ [](\A k \in Keys : established[k] <= 1)
    /\ [][\A k \in Keys :
            contains_key(sessions, k) =>
                /\ contains_key(sessions', k)
                /\ sessions'[k] # sessions[k] =>
                     /\ \E t \in Tasks : Refreshing(t, k) /\ task'[t].pc # "refreshing"
                     /\ sessions'[k].token.access = sessions[k].token.access + 1]_vars

\* The SessionStore keeps every entry, and the Session under an AuthScope
\* changes only when a refresh of that very session is stored.
StoreHoldersStay ==
    [][\A a \in StoreScopes :
         store.sessions[a] # NoSession =>
             /\ store'.sessions[a] # NoSession
             /\ store'.sessions[a] # store.sessions[a] =>
                  /\ store.pc = "refreshing" /\ store.scope = a
                  /\ store'.sessions[a].token.access
                        = store.sessions[a].token.access + 1]_vars

\* The SessionStore holds at most one Session per identity.
StoreOneHolderPerIdentity ==
    \A a \in StoreScopes, b \in StoreScopes :
        (/\ SameIdentity(a, b)
         /\ store.sessions[a] # NoSession
         /\ store.sessions[b] # NoSession) => a = b

\* C24 (as claimed): each cache holds at most one session per identity, and
\* a session once inserted is never removed or replaced; only its token and
\* its `created` instant change, through refresh.
C24_OneHolderNeverReplaced ==
    /\ ClientHoldersStay
    /\ StoreHoldersStay
    /\ [](StoreOneHolderPerIdentity)

\* list_resources is running in the helper's caller.
ListRunning == task[ApiCaller].op = "list" /\ task[ApiCaller].pc # "done"

\* The last page list_resources received had no nextLink.
LastPageHadNoLink ==
    /\ task[ApiCaller].op = "list"
    /\ api.links # <<>>
    /\ api.links[Len(api.links)] = NoLink

\* C25: against a server whose chain of nextLinks ends, a running
\* list_resources returns; once a page without nextLink has arrived it has
\* returned Ok with the items of the pages received, and it has sent exactly
\* one request per page received.
C25_ListTerminates ==
    /\ ListRunning ~> ~ListRunning
    /\ [](LastPageHadNoLink =>
            /\ Returned(ApiCaller, "list")
            /\ task[ApiCaller].result.kind = "ok"
            /\ api.sent = Len(api.links)
            /\ Len(api.items) = Len(PagesFrom(api.served, 1)))
    /\ [][LastPageHadNoLink => (api'.sent = api.sent \/ api' = ApiIdle)]_vars

\* A list over MaxPages pages has returned: the last page had no nextLink,
\* every page before it had one.
C25_Witness ==
    /\ Returned(ApiCaller, "list")
    /\ LastPageHadNoLink
    /\ Len(api.links) = MaxPages
    /\ \A k \in 1..(MaxPages - 1) : api.links[k] # NoLink
    /\ api.sent = MaxPages

\* Task u, having waited for the Mutex of the session it looked up, is
\* given it and goes into Session::secret.
TakesSession(u) == task[u].pc = "req_wait_mutex" /\ task'[u] # task[u]

\* The refresh exchanges sent by the calls in progress or last returned.
ExchangesSent(k) ==
    LET on == { t \in Tasks : task[t].arc = k }
        RECURSIVE Sum(_)
        Sum(S) == IF S = {} THEN 0
                  ELSE LET x == CHOOSE y \in S : TRUE
                       IN  task[x].exchanges + Sum(S \ {x})
    IN  Sum(on)

\* C26: of the callers that request the same cached session when its
\* refresh is due, one sends the exchange and the others wait for the Mutex:
\* at most one exchange for a session is in flight, nobody starts another
\* one meanwhile, and a caller that gets the Mutex when the stored token has
\* more than 300 seconds left sends no exchange and returns the stored
\* token; a caller that gets it with a due token that has a refresh token
\* sends exactly one.
C26_OneRefreshForConcurrentCallers ==
    /\ [](\A k \in Keys :
            Cardinality({ t \in Tasks : Refreshing(t, k) }) <= 1)
    /\ [][\A u \in Tasks :
            TakesSession(u) =>
                LET session == sessions[task[u].arc]
                IN  /\ ~RefreshingElsewhere(u, task[u].arc)
                    /\ IF Remaining(session, now) > RefreshBuffer
                         THEN /\ task'[u].exchanges = 0
                              /\ task'[u].result = Ok(session.token.access)
                              /\ sessions' = sessions
                         ELSE has_refresh_token(session.token)
                                => (task'[u].pc = "refreshing"
                                      /\ task'[u].exchanges = 1)]_vars

\* Both callers requested the same session; one sent the exchange, the
\* other none, both returned the refreshed token, which has more than 300
\* seconds left: one exchange in total.
C26_Witness ==
    \E k \in Keys :
        /\ \A t \in Tasks : Returned(t, "request") /\ task[t].arc = k
                               /\ task[t].result = Ok(sessions[k].token.access)
        /\ sessions[k].token.access = 2
        /\ Remaining(sessions[k], now) > RefreshBuffer
        /\ ExchangesSent(k) = 1

\* The locks task t holds: the write guard of the cache and the Mutexes of
\* sessions.
HoldsWrite(t) == t \in rwWriter
MutexesHeld(t) == { k \in Keys : t \in mutexOwner[k] }

\* Task t waits for the lock of the cache.
WaitsForCache(t) == task[t].pc \in {"auth_wait_write", "req_wait_read"}

\* C27: no task waits for the lock of the cache while holding a session's
\* Mutex, no task holds two Mutexes or a Mutex together with the write
\* guard, a call that has returned holds nothing, and every call in progress
\* returns.
C27_NoDeadlock ==
    /\ [](\A t \in Tasks :
            /\ WaitsForCache(t) => (MutexesHeld(t) = {} /\ ~HoldsWrite(t))
            /\ Cardinality(MutexesHeld(t)) <= 1
            /\ HoldsWrite(t) => MutexesHeld(t) = {}
            /\ task[t].pc = "done" => (MutexesHeld(t) = {} /\ ~HoldsWrite(t)))
    /\ \A t \in Tasks : (task[t].pc # "done") ~> (task[t].pc = "done")

\* One task holds the write guard inside its device-code flow while the
\* other waits for the lock of the cache.
C27_Witness ==
    \E t \in Tasks, u \in Tasks :
        /\ task[t].pc = "polling" /\ HoldsWrite(t)
        /\ WaitsForCache(u)

\* The step in which task t stores the answer to its refresh exchange for
\* the session k.
RefreshStored(t, k) == Refreshing(t, k) /\ sessions'[k] # sessions[k]

\* C28: what a successful refresh stores is the server's response as a
\* whole: the stored token is one of the responses the server can give to
\* that exchange, and a response without a refresh token leaves the session
\* without one although the token it replaces had one; a session left so by
\* a refresh answers the next due call with "No refresh token available"
\* and sends nothing.
C28_RefreshReplacesTokenWholesale ==
    /\ [](\A t \in Tasks, k \in Keys :
            (Refreshing(t, k) /\ sessions[k].token.access < MaxTokens)
              => /\ has_refresh_token(sessions[k].token)
                 /\ ENABLED (refresh_ok(t) /\ ~has_refresh_token(sessions'[k].token)))
    /\ [][\A t \in Tasks, k \in Keys :
            RefreshStored(t, k)
              => sessions'[k].token
                    \in ServerTokens(k, sessions[k].token.access, now)]_vars
    /\ [][\A u \in Tasks :
            (/\ TakesSession(u)
             /\ sessions[task[u].arc].token.access > 1
             /\ ~has_refresh_token(sessions[task[u].arc].token)
             /\ Remaining(sessions[task[u].arc], now) < RefreshBuffer)
              => /\ task'[u].result = Err("No refresh token available")
                 /\ task'[u].exchanges = 0
                 /\ sessions' = sessions]_vars

\* A session whose identity asks for offline_access was refreshed, the
\* response carried no refresh token, and the next due request on it has
\* failed without an exchange.
C28_Witness ==
    \E t \in Tasks :
        /\ Returned(t, "request")
        /\ task[t].result = Err("No refresh token available")
        /\ task[t].exchanges = 0
        /\ "offline_access" \in task[t].arc.scopes
        /\ sessions[task[t].arc].token.access = 2
        /\ ~has_refresh_token(sessions[task[t].arc].token)

\* list_resources is running in task t and Client::request returns an error
\* for the page it is about to ask for.
ListTokenFailure(t) ==
    /\ task[t].op = "list"
    /\ task[t].pc \notin {"send", "done"}
    /\ task'[t].result.kind = "err"

\* The request list_resources sent for a page gets no response.
ListTransportFailure(t) ==
    /\ task[t].op = "list" /\ task[t].pc = "send"
    /\ api'.sent = api.sent + 1
    /\ api'.status = api.status /\ api'.body = api.body
    /\ api'.links = api.links

\* The response to the request for a page is not a ListResponse.
ListDecodeFailure(t) ==
    /\ task[t].op = "list" /\ task[t].pc = "send"
    /\ api'.sent = api.sent + 1
    /\ ~(api'.status = api.status /\ api'.body = api.body)
    /\ ~json_ok(api'.body, "page")

\* C29: when the request for a page of a list fails in Client::request, in
\* transport or in decoding, list_resources returns with that error in the
\* same step, whatever the pages before have brought: the result is the
\* error and not the items; and a list that has returned an error has sent
\* no request after the failed page.
C29_ListAllOrNothing ==
    /\ [][\A t \in Tasks :
            /\ ListTokenFailure(t)
                 => /\ task'[t].pc = "done"
                    /\ api' = api
            /\ ListTransportFailure(t)
                 => /\ task'[t].pc = "done"
                    /\ task'[t].result = Err("transport")
            /\ ListDecodeFailure(t)
                 => /\ task'[t].pc = "done"
                    /\ task'[t].result = Err("decode")
            /\ (Returned(t, "list") /\ task[t].result.kind = "err")
                 => (api'.sent = api.sent \/ api' = ApiIdle)]_vars
    /\ [](\A t \in Tasks :
            (Returned(t, "list") /\ task[t].result.kind = "err")
              => api.sent \in {Len(api.served), Len(api.served) + 1})

\* A list failed on its third page after two pages with items had arrived.
C29_Witness ==
    /\ Returned(ApiCaller, "list")
    /\ task[ApiCaller].result.kind = "err"
    /\ Len(api.served) = 2
    /\ Len(api.items) > 0
    /\ api.sent = 3

\* The evaluation of the refresh condition on the session k as it stands.
ConditionOn(k) ==
    secret_condition(ExpiresSecs(sessions[k].token), Elapsed(sessions[k], now))

\* C30: whatever expires_in a cached token has (none counting as 0) and
\* whatever time has passed, the evaluation of the refresh condition never
\* overflows in expires_in - 300: the subtraction is evaluated only with
\* expires_in >= 300, and with expires_in < 300 the condition is true
\* without it, so that a call taking the session goes to Session::refresh.
C30_NoUnderflowInSecret ==
    /\ [](\A k \in Keys :
            contains_key(sessions, k) =>
                LET e == ExpiresSecs(sessions[k].token)
                    c == ConditionOn(k)
                IN  /\ c.sub.ok
                    /\ c.sub # NoSub => (e >= RefreshBuffer /\ c.sub.val = e - RefreshBuffer)
                    /\ e < RefreshBuffer => (c.due /\ c.sub = NoSub))
    /\ [][\A u \in Tasks :
            (TakesSession(u)
               /\ ExpiresSecs(sessions[task[u].arc].token) < RefreshBuffer)
              => IF has_refresh_token(sessions[task[u].arc].token)
                   THEN task'[u].pc = "refreshing"
                   ELSE task'[u].result = Err("No refresh token available")]_vars

\* A request went to a refresh on a token issued with expires_in 299, at
\* elapsed time 0.
C30_Witness ==
    /\ Refreshing(ApiCaller, ApiKey)
    /\ sessions[ApiKey].token.expires_in = RefreshBuffer - 1
    /\ Elapsed(sessions[ApiKey], now) = 0
    /\ ConditionOn(ApiKey).sub = NoSub

====
